---- MODULE Spec2Model ----
(***************************************************************************)
(* Model of the router status pollers of ha_arris_router_status:           *)
(*   - ArrisDataUpdateCoordinator._async_update_data (src/sensor.py)       *)
(*   - ArrisDataUpdateCoordinator._parse_status_page (src/sensor.py)       *)
(*   - VirginMediaDataUpdateCoordinator (src/custom_components/...)        *)
(*   - ArrisSensor / VirginMediaSensor native_value and available          *)
(*   - ConfigFlow.async_step_user and _test_connection (src/config_flow.py)*)
(* One refresh cycle is one action.  The router's answers are the inputs   *)
(* of a cycle and are drawn from bounded sets.                             *)
(***************************************************************************)
EXTENDS Integers, Sequences, FiniteSets, TLC

VARIABLES
    component,            \* which class is exercised: "arris", "virgin", "parse",
                          \* "config_flow"
    data,                 \* coordinator.data (the last record returned)
    last_update_success,  \* coordinator.last_update_success
    setup_done,           \* async_setup_entry finished: the sensors exist
    resp,                 \* the router's answers in the most recent cycle
    outcome,              \* how the most recent cycle ended
    stages,               \* the record after each strategy of the most recent cycle
    field_lost,           \* the most recent cycle dropped a key of the record before it
    page_args,            \* arguments of _parse_status_page (component "parse")
    flow                  \* the config flow: its last result and the probe behind it

vars == <<component, data, last_update_success, setup_done, resp, outcome,
          stages, field_lost, page_args, flow>>

(***************************************************************************)
(* Bounds                                                                  *)
(***************************************************************************)
MaxParse == 30        \* decimal strings "0".."MaxParse" (and "-1") are numeric
MaxArrayLen == 30     \* longest positional array the router sends
MaxRows == 2          \* most table rows on a page

(***************************************************************************)
(* Python values: None, str, int                                           *)
(***************************************************************************)
None == [t |-> "none"]
StrV(s) == [t |-> "str", s |-> s]
IntV(n) == [t |-> "int", n |-> n]

ParseRange == -1..MaxParse

\* the decimal numeral of each number
Numeral == [n \in ParseRange |-> ToString(n)]
Numerals == {Numeral[n] : n \in ParseRange}
DigitStrings == {Numeral[n] : n \in 0..MaxParse}

\* int(v) does not raise
CanInt(v) == v.t = "int" \/ (v.t = "str" /\ v.s \in Numerals)

\* int(v)
IntOf(v) ==
    IF v.t = "int" THEN v.n
    ELSE CHOOSE n \in ParseRange : Numeral[n] = v.s

\* str(v)
PyStr(v) ==
    CASE v.t = "str" -> v.s
      [] v.t = "int" -> ToString(v.n)
      [] OTHER -> "None"

\* s.isdigit()
IsDigit(s) == s \in DigitStrings

(***************************************************************************)
(* Python dict                                                             *)
(***************************************************************************)
EmptyRec == [k \in {} |-> None]

\* d[k] = v
Put(d, k, v) == [x \in (DOMAIN d) \cup {k} |-> IF x = k THEN v ELSE d[x]]

\* d.get(k)
DictGet(d, k) == IF k \in DOMAIN d THEN d[k] ELSE None

(***************************************************************************)
(* Exceptions and HTTP responses                                           *)
(***************************************************************************)
NoExc == ""
TimeoutError == "asyncio.TimeoutError"
ClientError == "aiohttp.ClientError"
ValueError == "ValueError"

NoBody == [kind |-> "none"]
Fail(e) == [err |-> e, status |-> 0, body |-> NoBody]
Http(st, b) == [err |-> NoExc, status |-> st, body |-> b]
NotRequested == [err |-> NoExc, status |-> 0, body |-> NoBody]

BadJson == [kind |-> "bad_json"]                  \* body is not JSON
BadContentType == [kind |-> "bad_content_type"]   \* not served as JSON
JsonNull == [kind |-> "null"]
JsonDict(d) == [kind |-> "dict", d |-> d]
JsonList(j) == [kind |-> "list", j |-> j]
HtmlBody(p) == [kind |-> "html", page |-> p]

\* what "await resp.json()" raises on a body
JsonError(b) ==
    CASE b.kind = "bad_json" -> ValueError
      [] b.kind = "bad_content_type" -> ClientError
      [] b.kind = "html" -> ClientError
      [] OTHER -> NoExc

Ok(d) == [exc |-> NoExc, data |-> d]
Raise(e, d) == [exc |-> e, data |-> d]

CannotConnect == "CannotConnect"
InvalidHost == "InvalidHost"

\* "except Exception" matches every exception modelled here
IsException(e) ==
    e \in {TimeoutError, ClientError, ValueError, CannotConnect, InvalidHost}

(***************************************************************************)
(* Strategy 1: coded-status decode (connection_troubleshoot_data.php)      *)
(***************************************************************************)
RECURSIVE PutSeq(_, _)
\* the assignments data[k] = v of kvs, in order
PutSeq(d, kvs) ==
    IF kvs = <<>> THEN d
    ELSE PutSeq(Put(d, kvs[1][1], kvs[1][2]), Tail(kvs))

OnlineThreshold == 3

\* reg_map.get(reg_val, f"Unknown ({reg_val})")
RegMap(n) ==
    CASE n = 0 -> "Unregistered"
      [] n = 1 -> "Other"
      [] n = 2 -> "Registered"
      [] n = 3 -> "Not Registered"
      [] n = 4 -> "Registration Complete"
      [] n = 5 -> "Access Denied"
      [] n = 6 -> "Operational"
      [] OTHER -> "Unknown (" \o ToString(n) \o ")"

\* mode_map.get(mode_val, f"Unknown ({mode_val})")
ModeMap(n) ==
    CASE n = 0 -> "DHCP"
      [] n = 1 -> "Static"
      [] n = 2 -> "PPPoE"
      [] OTHER -> "Unknown (" \o ToString(n) \o ")"

\* the operational status written for a code that is not None
OperStatus(oper) ==
    IF CanInt(oper)
    THEN (IF IntOf(oper) >= OnlineThreshold THEN "Online" ELSE "Offline")
    ELSE PyStr(oper)

RegStatus(reg) == IF CanInt(reg) THEN RegMap(IntOf(reg)) ELSE PyStr(reg)

WanMode(m) == IF CanInt(m) THEN ModeMap(IntOf(m)) ELSE PyStr(m)

\* the value stored under a raw js_* key
RawAttr(v) == v

\* the body of "if isinstance(json_data, dict):"
DecodeCoded(d0, json_data) ==
    LET oper == DictGet(json_data, "js_cm_oper_value")
        reg == DictGet(json_data, "js_cm_reg_value")
        wan_ip_mode == DictGet(json_data, "js_wan_ip_prov_mode")
        fail_safe == DictGet(json_data, "js_fail_safe_mode")
        no_rf == DictGet(json_data, "js_NoRF_Detected")
        d1 == IF oper # None
              THEN Put(d0, "cable_modem_status", StrV(OperStatus(oper))) ELSE d0
        d2 == IF reg # None
              THEN Put(d1, "cable_modem_registration", StrV(RegStatus(reg))) ELSE d1
        d3 == IF wan_ip_mode # None
              THEN Put(d2, "wan_ip_provision_mode", StrV(WanMode(wan_ip_mode))) ELSE d2
        d4 == IF fail_safe # None
              THEN Put(d3, "fail_safe_mode",
                       StrV(IF PyStr(fail_safe) = "1" THEN "Active" ELSE "Inactive"))
              ELSE d3
        d5 == IF no_rf # None
              THEN Put(d4, "no_rf_detected",
                       StrV(IF PyStr(no_rf) = "1" THEN "Yes" ELSE "No"))
              ELSE d4
    IN PutSeq(d5, << <<"js_cm_oper_value", RawAttr(oper)>>,
                     <<"js_cm_reg_value", RawAttr(reg)>>,
                     <<"js_wan_ip_prov_mode", RawAttr(wan_ip_mode)>>,
                     <<"js_fail_safe_mode", RawAttr(fail_safe)>>,
                     <<"js_NoRF_Detected", RawAttr(no_rf)>> >>)

\* a handler that lets transport errors through
CatchOnlyValueError(e) == e = ValueError

\* the "except Exception" clauses of the coded-status block
CatchCtParse(e) == IsException(e)
CatchCt(e) == IsException(e)

\* lines 209-286: POST connection_troubleshoot_data.php and decode it
CtStep(d0, ct) ==
    LET inner ==
            IF ct.err # NoExc THEN Raise(ct.err, d0)
            ELSE IF ct.status = 200
            THEN LET e == JsonError(ct.body)
                 IN IF e # NoExc
                    THEN (IF CatchCtParse(e) THEN Ok(d0) ELSE Raise(e, d0))
                    ELSE IF ct.body.kind = "dict"
                    THEN Ok(DecodeCoded(d0, ct.body.d))
                    ELSE Ok(d0)
            ELSE Ok(d0)
    IN IF inner.exc # NoExc /\ CatchCt(inner.exc) THEN Ok(inner.data) ELSE inner

(***************************************************************************)
(* Strategy 2: positional-array decode (ajaxGet_device_networkstatus_data) *)
(***************************************************************************)
MinLenConfig == 30
MinLenCounts == 29

\* j[i], Python indices from 0
At(j, i) == j[i + 1]

\* a customer id map whose unmapped ids render as "Unknown ISP ID=..."
MapCustomerIdUnknown(customer_id) ==
    IF customer_id = 8 THEN "Virgin Media"
    ELSE "Unknown ISP ID=" \o ToString(customer_id)

\* _map_customer_id
MapCustomerId(customer_id) ==
    CASE customer_id = 6 -> "Virgin Media (VTR)"
      [] customer_id = 8 -> "Virgin Media"
      [] customer_id = 20 -> "Ziggo"
      [] customer_id = 41 -> "Virgin Media Ireland"
      [] customer_id = 44 -> "Telekom Austria"
      [] customer_id = 50 -> "Yallo"
      [] customer_id = 51 -> "Sunrise"
      [] OTHER -> "Liberty Global International (ID: " \o ToString(customer_id) \o ")"

\* the value written to primary_downstream_channel
LockValue(v) == IF v = StrV("Locked") THEN v ELSE None

\* the value written to isp_provider
IspValue(v) == IF v.t = "int" THEN StrV(MapCustomerId(v.n)) ELSE None

\* int(x) if str(x).isdigit() else 0
CountOf(v) == IF IsDigit(PyStr(v)) THEN IntOf(StrV(PyStr(v))) ELSE 0

\* lines 320-331
DecodeCounts(d0, j) ==
    IF Len(j) >= MinLenCounts
    THEN LET upstream_3_0_count == CountOf(At(j, 25))
             downstream_3_0_count == CountOf(At(j, 26))
             downstream_3_1_count == CountOf(At(j, 27))
             upstream_3_1_count == CountOf(At(j, 28))
         IN PutSeq(d0, <<
              <<"docsis_3_0_downstream", IntV(downstream_3_0_count)>>,
              <<"docsis_3_0_upstream", IntV(upstream_3_0_count)>>,
              <<"docsis_3_1_downstream", IntV(downstream_3_1_count)>>,
              <<"docsis_3_1_upstream", IntV(upstream_3_1_count)>>,
              <<"total_downstream_channels",
                IntV(downstream_3_0_count + downstream_3_1_count)>>,
              <<"total_upstream_channels",
                IntV(upstream_3_0_count + upstream_3_1_count)>> >>)
    ELSE d0

\* lines 297-331
DecodeArray(d0, j) ==
    IF Len(j) >= MinLenConfig
    THEN DecodeCounts(
           PutSeq(d0, <<
             <<"primary_downstream_channel", LockValue(At(j, 2))>>,
             <<"isp_provider", IspValue(At(j, 4))>>,
             <<"network_access", At(j, 5)>>,
             <<"max_cpes", At(j, 6)>>,
             <<"baseline_privacy", At(j, 7)>>,
             <<"docsis_version", At(j, 8)>>,
             <<"docsis_mode", At(j, 8)>>,
             <<"config_file", At(j, 9)>>,
             <<"primary_downstream_sfid", At(j, 10)>>,
             <<"primary_downstream_max_traffic_rate", At(j, 11)>>,
             <<"primary_downstream_max_traffic_burst", At(j, 12)>>,
             <<"primary_downstream_min_traffic_rate", At(j, 13)>>,
             <<"primary_upstream_sfid", At(j, 14)>>,
             <<"primary_upstream_max_traffic_rate", At(j, 15)>>,
             <<"primary_upstream_max_traffic_burst", At(j, 16)>>,
             <<"primary_upstream_min_traffic_rate", At(j, 17)>>,
             <<"primary_upstream_max_concatenated_burst", At(j, 18)>>,
             <<"primary_upstream_scheduling_type", At(j, 19)>> >>), j)
    ELSE d0

\* a handler that lets decode errors through
CatchOnlyTransport(e) == e \in {TimeoutError, ClientError}

\* the "except Exception" clause of the network-status block
CatchDn(e) == IsException(e)

\* lines 288-338: POST ajaxGet_device_networkstatus_data.php and decode it
DnStep(d0, dn) ==
    LET inner ==
            IF dn.err # NoExc THEN Raise(dn.err, d0)
            ELSE IF dn.status = 200
            THEN LET e == JsonError(dn.body)
                 IN IF e # NoExc THEN Raise(e, d0)
                    ELSE IF dn.body.kind = "list"
                    THEN Ok(DecodeArray(d0, dn.body.j))
                    ELSE Ok(d0)
            ELSE Ok(d0)
    IN IF inner.exc # NoExc /\ CatchDn(inner.exc) THEN Ok(inner.data) ELSE inner

(***************************************************************************)
(* ArrisDataUpdateCoordinator._async_update_data                           *)
(***************************************************************************)
\* the "except Exception" clause around GET /
CatchGet(e) == IsException(e)

\* lines 196-205: html_content
RootStep(root) ==
    IF root.err # NoExc
    THEN (IF CatchGet(root.err) THEN [exc |-> NoExc, html |-> NoBody]
          ELSE [exc |-> root.err, html |-> NoBody])
    ELSE IF root.status = 200 THEN [exc |-> NoExc, html |-> root.body]
    ELSE [exc |-> NoExc, html |-> NoBody]

\* a cycle that starts from the previous record
CarriedData(old) == old

\* line 207: the record a cycle starts from (old is coordinator.data)
FreshData(old) == EmptyRec

\* lines 341-344: what leaves _async_update_data for an exception
Escalate(e) ==
    IF e = TimeoutError \/ e = ClientError THEN "UpdateFailed" ELSE "Exception"

Failed(e) == [outcome |-> Escalate(e), data |-> EmptyRec, stages |-> <<>>]

ArrisUpdate(old, root, ct, dn) ==
    LET g == RootStep(root)
    IN IF g.exc # NoExc THEN Failed(g.exc)
       ELSE LET c == CtStep(FreshData(old), ct)
            IN IF c.exc # NoExc THEN Failed(c.exc)
               ELSE LET n == DnStep(c.data, dn)
                    IN IF n.exc # NoExc THEN Failed(n.exc)
                       ELSE [outcome |-> "returned", data |-> n.data,
                             stages |-> <<c.data, n.data>>]


(***************************************************************************)
(* HTML pages.  A text is a sequence of words; a page is what BeautifulSoup *)
(* finds in it: table rows (each a sequence of cell texts), div texts,     *)
(* spans (text and parent text), the lines of its text and the customer    *)
(* id and brand markers of its scripts.                                    *)
(***************************************************************************)
\* str.lower(), word by word
LowerWord(w) ==
    CASE w = "Cable" -> "cable"
      [] w = "Modem" -> "modem"
      [] w = "Status" -> "status"
      [] w = "Primary" -> "primary"
      [] w = "DOCSIS" -> "docsis"
      [] w = "Online" -> "online"
      [] w = "Locked" -> "locked"
      [] w = "Downstream" -> "downstream"
      [] w = "Upstream" -> "upstream"
      [] OTHER -> w

Lower(text) == [i \in 1..Len(text) |-> LowerWord(text[i])]

\* phrase in text
HasPhrase(text, phrase) ==
    \E i \in 1..(Len(text) - Len(phrase) + 1) :
        SubSeq(text, i, i + Len(phrase) - 1) = phrase

RECURSIVE Join(_)
\* the string of a text
Join(text) ==
    IF text = <<>> THEN ""
    ELSE IF Len(text) = 1 THEN text[1]
    ELSE text[1] \o " " \o Join(Tail(text))

NoScript == [customer_id |-> -1, markers |-> {}]

\* the page of the empty string
BlankPage == [blank |-> TRUE, rows |-> <<>>, divs |-> <<>>, spans |-> <<>>,
              lines |-> <<>>, script |-> NoScript]

\* the record key a table row's label selects ("" when none)
RowKey(key) ==
    IF HasPhrase(key, <<"cable", "modem", "status">>) THEN "cable_modem_status"
    ELSE IF HasPhrase(key, <<"primary", "downstream", "channel">>)
    THEN "primary_downstream_channel"
    ELSE IF HasPhrase(key, <<"docsis", "3.0", "channels">>)
            /\ HasPhrase(key, <<"downstream">>)
    THEN "docsis_3_0_downstream"
    ELSE IF HasPhrase(key, <<"docsis", "3.0", "channels">>)
            /\ HasPhrase(key, <<"upstream">>)
    THEN "docsis_3_0_upstream"
    ELSE IF HasPhrase(key, <<"docsis", "3.1", "channels">>)
            /\ HasPhrase(key, <<"downstream">>)
    THEN "docsis_3_1_downstream"
    ELSE IF HasPhrase(key, <<"docsis", "3.1", "channels">>)
            /\ HasPhrase(key, <<"upstream">>)
    THEN "docsis_3_1_upstream"
    ELSE ""

RECURSIVE TableDecode(_, _)
\* the loop over the table rows
TableDecode(d, rows) ==
    IF rows = <<>> THEN d
    ELSE LET cells == Head(rows)
             k == IF Len(cells) >= 2 THEN RowKey(Lower(cells[1])) ELSE ""
         IN TableDecode(IF k # "" THEN Put(d, k, StrV(Join(cells[2]))) ELSE d,
                        Tail(rows))

(***************************************************************************)
(* ArrisDataUpdateCoordinator._parse_status_page and _parse_isp_provider   *)
(***************************************************************************)
\* line 385: the alternative methods run
NeedsFallback(d) ==
    ~ \E k \in {"cable_modem_status", "primary_downstream_channel",
                "docsis_3_0_downstream"} : k \in DOMAIN d

RECURSIVE DivDecode(_, _)
\* lines 389-395
DivDecode(d, divs) ==
    IF divs = <<>> THEN d
    ELSE LET text == Head(divs)
             d1 == IF HasPhrase(text, <<"Cable", "Modem", "Status">>)
                      /\ HasPhrase(text, <<"Online">>)
                   THEN Put(d, "cable_modem_status", StrV("Online"))
                   ELSE IF HasPhrase(text, <<"Primary", "downstream", "channel">>)
                           /\ HasPhrase(text, <<"Locked">>)
                   THEN Put(d, "primary_downstream_channel", StrV("Locked"))
                   ELSE d
         IN DivDecode(d1, Tail(divs))

\* lines 406-413: the key a digit span's parent text selects
SpanKey(parent_text) ==
    IF HasPhrase(parent_text, <<"docsis", "3.0">>)
       /\ HasPhrase(parent_text, <<"downstream">>)
    THEN "docsis_3_0_downstream"
    ELSE IF HasPhrase(parent_text, <<"docsis", "3.0">>)
            /\ HasPhrase(parent_text, <<"upstream">>)
    THEN "docsis_3_0_upstream"
    ELSE IF HasPhrase(parent_text, <<"docsis", "3.1">>)
            /\ HasPhrase(parent_text, <<"downstream">>)
    THEN "docsis_3_1_downstream"
    ELSE IF HasPhrase(parent_text, <<"docsis", "3.1">>)
            /\ HasPhrase(parent_text, <<"upstream">>)
    THEN "docsis_3_1_upstream"
    ELSE ""

RECURSIVE SpanDecode(_, _)
\* lines 398-413
SpanDecode(d, spans) ==
    IF spans = <<>> THEN d
    ELSE LET span == Head(spans)
             k == IF IsDigit(span.text) THEN SpanKey(Lower(span.parent)) ELSE ""
         IN SpanDecode(IF k # "" THEN Put(d, k, StrV(span.text)) ELSE d,
                       Tail(spans))

\* lines 385-413
FallbackDecode(d, page) ==
    IF NeedsFallback(d) THEN SpanDecode(DivDecode(d, page.divs), page.spans)
    ELSE d

\* "marker in html": CustNameVM is also found inside CustNameVMIE
HasMarker(page, marker) ==
    \/ marker \in page.script.markers
    \/ (marker = "CustNameVM" /\ "CustNameVMIE" \in page.script.markers)

\* provider_map.get(customer_id, ...) of _parse_isp_provider
JsProviderMap(customer_id) ==
    CASE customer_id = 6 -> "Virgin Media (VTR)"
      [] customer_id = 8 -> "Virgin Media"
      [] customer_id = 20 -> "Ziggo"
      [] customer_id = 41 -> "Virgin Media Ireland"
      [] customer_id = 44 -> "Telekom Austria"
      [] customer_id = 50 -> "Yallo"
      [] customer_id = 51 -> "Sunrise"
      [] OTHER -> "Liberty Global International (ID: " \o ToString(customer_id) \o ")"

\* _parse_isp_provider
ParseIspProvider(page) ==
    IF page.script.customer_id >= 0 THEN JsProviderMap(page.script.customer_id)
    ELSE IF HasMarker(page, "CustNameVM") THEN "Virgin Media"
    ELSE IF HasMarker(page, "CustNameZiggo") THEN "Ziggo"
    ELSE IF HasMarker(page, "CustNameTMAustria") THEN "Telekom Austria"
    ELSE IF HasMarker(page, "CustNameYallo") THEN "Yallo"
    ELSE IF HasMarker(page, "CustNameSunrise") THEN "Sunrise"
    ELSE IF HasMarker(page, "CustNameVMIE") THEN "Virgin Media Ireland"
    ELSE IF HasMarker(page, "CustNameVTR") THEN "Virgin Media (VTR)"
    ELSE "Unknown Provider"

\* lines 415-419
IspDecode(d, html, main_html) ==
    Put(d, "isp_provider",
        StrV(ParseIspProvider(IF ~ main_html.blank THEN main_html ELSE html)))

\* _parse_status_page(html, main_html): the record after each strategy
ParseStatusPage(html, main_html) ==
    LET t == TableDecode(EmptyRec, html.rows)
        f == FallbackDecode(t, html)
        i == IspDecode(f, html, main_html)
    IN [outcome |-> "returned", data |-> i, stages |-> <<t, f, i>>]

(***************************************************************************)
(* VirginMediaDataUpdateCoordinator                                        *)
(***************************************************************************)
\* lines 101-119: the same loop over the table rows
VirginTableDecode(d, rows) == TableDecode(d, rows)

\* lines 138-146: the first all-digit line among the next three, <<>> if none
DigitLineAfter(lines, p) ==
    LET hits == {j \in 1..3 : p + j <= Len(lines) /\ IsDigit(Join(lines[p + j]))}
    IN IF hits = {} THEN <<>>
       ELSE <<Join(lines[p + CHOOSE j \in hits : \A h \in hits : j <= h])>>

\* lines 142-145: downstream first, then upstream
CountSlot(d, down, up, found) ==
    IF found = <<>> THEN d
    ELSE IF down \notin DOMAIN d THEN Put(d, down, StrV(found[1]))
    ELSE Put(d, up, StrV(found[1]))

\* lines 127-157: one iteration of the loop over the lines, at position p
LineStep(d, lines, p) ==
    LET line == lines[p]
        has_next == p + 1 <= Len(lines)
        next_line == lines[p + 1]
    IN IF HasPhrase(line, <<"Cable", "Modem", "Status">>) /\ has_next
       THEN (IF next_line # <<>> /\ HasPhrase(next_line, <<"Online">>)
             THEN Put(d, "cable_modem_status", StrV(Join(next_line))) ELSE d)
       ELSE IF HasPhrase(line, <<"Primary", "downstream", "channel">>) /\ has_next
       THEN (IF next_line # <<>> /\ HasPhrase(next_line, <<"Locked">>)
             THEN Put(d, "primary_downstream_channel", StrV(Join(next_line)))
             ELSE d)
       ELSE IF HasPhrase(line, <<"DOCSIS", "3.0", "channels">>)
       THEN CountSlot(d, "docsis_3_0_downstream", "docsis_3_0_upstream",
                      DigitLineAfter(lines, p))
       ELSE IF HasPhrase(line, <<"DOCSIS", "3.1", "channels">>)
       THEN CountSlot(d, "docsis_3_1_downstream", "docsis_3_1_upstream",
                      DigitLineAfter(lines, p))
       ELSE d

RECURSIVE LinesDecode(_, _, _)
LinesDecode(d, lines, p) ==
    IF p > Len(lines) THEN d
    ELSE LinesDecode(LineStep(d, lines, p), lines, p + 1)

\* lines 121-157: the alternative method runs only on an empty record
TextDecode(d, page) ==
    IF d = EmptyRec THEN LinesDecode(d, page.lines, 1) ELSE d

\* _parse_status_page(html) of the Virgin Media coordinator
VirginParseStatusPage(html) ==
    LET t == VirginTableDecode(EmptyRec, html.rows)
        f == TextDecode(t, html)
    IN [outcome |-> "returned", data |-> f, stages |-> <<t, f>>]

\* _async_update_data of the Virgin Media coordinator
VirginUpdate(root) ==
    IF root.err # NoExc THEN Failed(root.err)
    ELSE IF root.status # 200
    THEN [outcome |-> "UpdateFailed", data |-> EmptyRec, stages |-> <<>>]
    ELSE VirginParseStatusPage(root.body.page)


(***************************************************************************)
(* Sensors                                                                 *)
(***************************************************************************)
VirginSensorKeys ==
    {"cable_modem_status", "primary_downstream_channel", "docsis_3_0_downstream",
     "docsis_3_0_upstream", "docsis_3_1_downstream", "docsis_3_1_upstream"}

ArrisSensorKeys ==
    VirginSensorKeys \cup
    {"docsis_version", "cable_modem_registration", "wan_ip_provision_mode",
     "fail_safe_mode", "no_rf_detected", "total_downstream_channels",
     "total_upstream_channels", "isp_provider", "network_access", "max_cpes",
     "baseline_privacy", "docsis_mode", "config_file", "primary_downstream_sfid",
     "primary_downstream_max_traffic_rate", "primary_downstream_max_traffic_burst",
     "primary_downstream_min_traffic_rate", "primary_upstream_sfid",
     "primary_upstream_max_traffic_rate", "primary_upstream_max_traffic_burst",
     "primary_upstream_min_traffic_rate", "primary_upstream_max_concatenated_burst",
     "primary_upstream_scheduling_type"}

SensorKeys == IF component = "virgin" THEN VirginSensorKeys ELSE ArrisSensorKeys

\* native_value: self.coordinator.data.get(key)
NativeValue(key) == DictGet(data, key)

\* available
Available(key) == last_update_success /\ NativeValue(key) # None

(***************************************************************************)
(* What the router may answer                                              *)
(***************************************************************************)
Failures == {Fail(TimeoutError), Fail(ClientError), Http(500, NoBody)}

CtKeys == {"js_cm_oper_value", "js_cm_reg_value", "js_wan_ip_prov_mode",
           "js_fail_safe_mode", "js_NoRF_Detected"}

OperVals == {StrV("5"), StrV("2"), StrV("-1"), StrV("abc"), IntV(3)}

CtDicts ==
    {EmptyRec}
    \cup {[k \in {"js_cm_oper_value"} |-> v] : v \in OperVals}
    \cup {[k \in {key} |-> StrV("1")] : key \in CtKeys \ {"js_cm_oper_value"}}
    \cup {[k \in CtKeys |-> v] : v \in {StrV("1"), None}}

CtResponses ==
    Failures \cup {Http(200, b) : b \in {BadJson, JsonNull}}
             \cup {Http(200, JsonDict(d)) : d \in CtDicts}

DefaultCounts == <<StrV("4"), StrV("24"), StrV("2"), StrV("4")>>
CountTuples ==
    {DefaultCounts,
     <<StrV("4"), StrV("x"), StrV("2"), StrV("4")>>,
     <<IntV(4), IntV(24), IntV(2), StrV("")>>}

\* a positional array of n elements
MkArray(n, lock, cust, cnt, fill) ==
    [i \in 1..n |->
        CASE i - 1 = 2 -> lock
          [] i - 1 = 4 -> cust
          [] i - 1 = 25 -> cnt[1]
          [] i - 1 = 26 -> cnt[2]
          [] i - 1 = 27 -> cnt[3]
          [] i - 1 = 28 -> cnt[4]
          [] OTHER -> fill]

DnArrays ==
    {MkArray(MinLenCounts, StrV("Locked"), IntV(8), DefaultCounts, StrV("cfg"))}
    \cup {MkArray(n, StrV("Locked"), IntV(8), cnt, StrV("cfg")) :
            n \in MinLenConfig..MaxArrayLen, cnt \in CountTuples}
    \cup {MkArray(n, StrV("Not Locked"), c, DefaultCounts, None) :
            n \in MinLenConfig..MaxArrayLen, c \in {IntV(999), StrV("8")}}

DnResponses ==
    Failures \cup {Http(200, b) : b \in {BadJson, JsonDict(EmptyRec)}}
             \cup {Http(200, JsonList(j)) : j \in DnArrays}

RowCands ==
    { << <<"Cable", "Modem", "Status">>, <<"Online">> >>,
      << <<"DOCSIS", "3.0", "channels", "downstream">>, <<"24">> >>,
      << <<"DOCSIS", "3.1", "channels", "downstream">>, <<"2">> >>,
      << <<"DOCSIS", "3.0", "channels", "upstream">>, <<"4">> >>,
      << <<"Uptime">> >> }

VirginRowCands ==
    { << <<"Cable", "Modem", "Status">>, <<"Online">> >>,
      << <<"DOCSIS", "3.0", "channels", "downstream">>, <<"24">> >>,
      << <<"DOCSIS", "3.1", "channels", "downstream">>, <<"2">> >> }

RowSeqs(cands) == UNION {[1..n -> cands] : n \in 0..MaxRows}

LineSeqs ==
    { <<>>,
      << <<"Cable", "Modem", "Status">>, <<"Online">> >>,
      << <<"Primary", "downstream", "channel">>, <<"Not", "Locked">> >>,
      << <<"DOCSIS", "3.0", "channels">>, <<"24">>,
         <<"DOCSIS", "3.0", "channels">>, <<>>, <<"4">> >> }

DivSeqs ==
    { <<>>,
      << <<"Cable", "Modem", "Status", "Online">> >> }

SpanSeqs ==
    { <<>>,
      << [text |-> "8", parent |-> <<"DOCSIS", "3.0", "upstream", "8">>] >> }

Scripts ==
    { [customer_id |-> 999, markers |-> {}],
      [customer_id |-> -1, markers |-> {"CustNameVMIE"}] }

\* the pages the Virgin Media poller is shown
VirginPages ==
    {[blank |-> FALSE, rows |-> r, divs |-> <<>>, spans |-> <<>>, lines |-> l,
      script |-> NoScript] : r \in RowSeqs(VirginRowCands), l \in LineSeqs}

\* the pages _parse_status_page is applied to
StatusPages ==
    {[blank |-> FALSE, rows |-> r, divs |-> d, spans |-> s, lines |-> <<>>,
      script |-> c] : r \in RowSeqs(RowCands), d \in DivSeqs, s \in SpanSeqs,
                      c \in Scripts}

MainPages ==
    {BlankPage,
     [blank |-> FALSE, rows |-> <<>>, divs |-> <<>>, spans |-> <<>>, lines |-> <<>>,
      script |-> [customer_id |-> 8, markers |-> {}]]}

HomePage ==
    [blank |-> FALSE, rows |-> << << <<"Cable", "Modem", "Status">>, <<"Online">> >> >>,
     divs |-> <<>>, spans |-> <<>>, lines |-> <<>>,
     script |-> [customer_id |-> 8, markers |-> {}]]

RootResponses == {Fail(TimeoutError), Http(500, NoBody), Http(200, HtmlBody(HomePage))}

VirginResponses == Failures \cup {Http(200, HtmlBody(p)) : p \in VirginPages}

NoArgs == [html |-> BlankPage, main_html |-> BlankPage]

(***************************************************************************)
(* ConfigFlow (src/config_flow.py)                                         *)
(***************************************************************************)
\* "except aiohttp.ClientError"
IsClientError(e) == e = ClientError

\* what the body of the try block of _test_connection raises (NoExc: returns)
ProbeRaises(r) ==
    IF r.err # NoExc THEN r.err
    ELSE IF r.status # 200 THEN CannotConnect
    ELSE NoExc

\* _test_connection: the exception that leaves it (NoExc: it returns True)
TestConnection(r) ==
    LET e == ProbeRaises(r)
    IN IF e = NoExc THEN NoExc
       ELSE IF IsClientError(e) THEN CannotConnect
       ELSE IF IsException(e) THEN InvalidHost
       ELSE e

NoErrors == [k \in {} |-> ""]

\* the errors async_step_user records for an exception of _test_connection
StepErrors(e) ==
    IF e = CannotConnect THEN [k \in {"base"} |-> "cannot_connect"]
    ELSE IF e = InvalidHost THEN [k \in {"host"} |-> "invalid_host"]
    ELSE [k \in {"base"} |-> "unknown"]

NoInput == ""
UserInputs == {NoInput, "192.168.100.1", "router.lan"}

NoFlow == [step |-> "init", errors |-> NoErrors, probe |-> NotRequested,
           host |-> NoInput, title |-> ""]

\* async_step_user(user_input), the probe's GET being answered by r
StepUser(user_input, r) ==
    IF user_input = NoInput
    THEN [step |-> "form", errors |-> NoErrors, probe |-> NotRequested,
          host |-> NoInput, title |-> ""]
    ELSE LET e == TestConnection(r)
         IN IF e = NoExc
            THEN [step |-> "create_entry", errors |-> NoErrors, probe |-> r,
                  host |-> user_input,
                  title |-> "Arris Router (" \o user_input \o ")"]
            ELSE [step |-> "form", errors |-> StepErrors(e), probe |-> r,
                  host |-> user_input, title |-> ""]

ProbeResponses ==
    {Fail(TimeoutError), Fail(ClientError), Fail(ValueError),
     Http(500, NoBody), Http(204, NoBody),
     Http(200, HtmlBody(HomePage)), Http(200, HtmlBody(BlankPage))}

(***************************************************************************)
(* The state machine                                                       *)
(***************************************************************************)
Init ==
    /\ component \in {"arris", "virgin", "parse", "config_flow"}
    /\ data = EmptyRec            \* stands for None until setup_done
    /\ last_update_success = TRUE
    /\ setup_done = FALSE
    /\ resp = [root |-> NotRequested, ct |-> NotRequested, dn |-> NotRequested]
    /\ outcome = "none"
    /\ stages = <<>>
    /\ field_lost = FALSE
    /\ IF component = "parse"
       THEN page_args \in {[html |-> h, main_html |-> m] :
                              h \in StatusPages, m \in MainPages}
       ELSE page_args = NoArgs
    /\ flow = NoFlow

\* DataUpdateCoordinator: what a finished cycle does to the coordinator
Record(r) ==
    /\ outcome' = r.outcome
    /\ stages' = r.stages
    /\ IF r.outcome = "returned"
       THEN /\ data' = r.data
            /\ field_lost' = (DOMAIN data \ DOMAIN r.data # {})
            /\ last_update_success' = TRUE
            /\ setup_done' = TRUE
       ELSE /\ data' = data
            /\ field_lost' = FALSE
            /\ last_update_success' = FALSE
            /\ setup_done' = setup_done

\* one refresh cycle of ArrisDataUpdateCoordinator
ArrisRefresh ==
    /\ component = "arris"
    /\ \E root \in RootResponses, ct \in CtResponses, dn \in DnResponses :
          /\ resp' = [root |-> root, ct |-> ct, dn |-> dn]
          /\ Record(ArrisUpdate(data, root, ct, dn))
    /\ UNCHANGED <<component, page_args, flow>>

\* one refresh cycle of VirginMediaDataUpdateCoordinator
VirginRefresh ==
    /\ component = "virgin"
    /\ \E root \in VirginResponses :
          /\ resp' = [root |-> root, ct |-> NotRequested, dn |-> NotRequested]
          /\ Record(VirginUpdate(root))
    /\ UNCHANGED <<component, page_args, flow>>

\* a call of ArrisDataUpdateCoordinator._parse_status_page
ParsePage ==
    /\ component = "parse"
    /\ outcome = "none"
    /\ LET r == ParseStatusPage(page_args.html, page_args.main_html)
       IN /\ outcome' = r.outcome
          /\ stages' = r.stages
          /\ data' = r.data
    /\ UNCHANGED <<component, last_update_success, setup_done, resp, field_lost,
                   page_args, flow>>

\* the operator submits the form of the config flow (or opens it)
AsyncStepUser ==
    /\ component = "config_flow"
    /\ flow.step # "create_entry"
    /\ \E user_input \in UserInputs, r \in ProbeResponses :
          flow' = StepUser(user_input, r)
    /\ UNCHANGED <<component, data, last_update_success, setup_done, resp, outcome,
                   stages, field_lost, page_args>>

Next == ArrisRefresh \/ VirginRefresh \/ ParsePage \/ AsyncStepUser

Spec == Init /\ [][Next]_vars


(***************************************************************************)
(* Properties                                                              *)
(***************************************************************************)
\* a refresh cycle of one of the two pollers has run
Cycled == component \in {"arris", "virgin"} /\ outcome # "none"
Returned == component \in {"arris", "virgin"} /\ outcome = "returned"

TimedOut(r) == r.err = TimeoutError
Answered(r) == r.err = NoExc /\ r.status = 200
Requested == IF component = "arris" THEN {"root", "ct", "dn"} ELSE {"root"}

\* the keys each strategy of _async_update_data writes
CtFields ==
    CtKeys \cup {"cable_modem_status", "cable_modem_registration",
                 "wan_ip_provision_mode", "fail_safe_mode", "no_rf_detected"}
CountFields ==
    {"docsis_3_0_downstream", "docsis_3_0_upstream", "docsis_3_1_downstream",
     "docsis_3_1_upstream", "total_downstream_channels", "total_upstream_channels"}
DnFields == (ArrisSensorKeys \ CtFields) \ {"cable_modem_status"}

CtDecodable == Answered(resp.ct) /\ resp.ct.body.kind = "dict"
DnDecodable ==
    /\ Answered(resp.dn)
    /\ resp.dn.body.kind = "list"
    /\ Len(resp.dn.body.j) >= 30

\* C1: in a cycle in which every endpoint request times out, the cycle fails
\* (UpdateFailed), no record is returned and no field is available.
C1_AllTimeoutsFailCycle ==
    (Cycled /\ \A e \in Requested : TimedOut(resp[e]))
        => /\ outcome = "UpdateFailed"
           /\ ~last_update_success
           /\ \A k \in SensorKeys : ~Available(k)

\* C2: when at least one endpoint answers, the cycle returns a record, and an
\* endpoint that failed (transport error or non-200) contributes no field.
C2_EndpointFailureNonFatal ==
    (component = "arris" /\ outcome # "none"
       /\ \E e \in Requested : Answered(resp[e]))
        => /\ outcome = "returned"
           /\ last_update_success
           /\ ~Answered(resp.ct) => DOMAIN data \cap CtFields = {}
           /\ ~Answered(resp.dn) => DOMAIN data \cap DnFields = {}

C2_Witness ==
    /\ component = "arris"
    /\ outcome = "returned"
    /\ resp.root.status = 500
    /\ TimedOut(resp.ct)
    /\ Answered(resp.dn)
    /\ "isp_provider" \in DOMAIN data
    /\ DOMAIN data \cap CtFields = {}

C4_FirstWriterWins ==
    \A i \in 1..Len(stages) : \A j \in 1..Len(stages) :
        i < j => \A k \in DOMAIN stages[i] :
                    k \in DOMAIN stages[j] /\ stages[j][k] = stages[i][k]

\* C5: a field is available exactly when the most recent cycle succeeded and
\* the field is present in the record.
C5_AvailableIffPresent ==
    (setup_done /\ component \in {"arris", "virgin"})
        => \A k \in SensorKeys :
              Available(k) <=> (last_update_success /\ k \in DOMAIN data)

\* the rows and lines of the page of the most recent Virgin Media cycle
VirginSources ==
    IF Answered(resp.root)
    THEN Len(resp.root.body.page.rows) + Len(resp.root.body.page.lines)
    ELSE 0

\* C6: the record of a cycle holds only what that cycle's responses gave:
\* a field whose source is missing from them is absent, whatever the record
\* before the cycle held.
C6_RecordBuiltFromScratch ==
    Returned
        => /\ component = "arris" =>
                /\ DOMAIN data \subseteq CtFields \cup DnFields
                /\ DOMAIN data \cap CtFields # {} => CtDecodable
                /\ DOMAIN data \cap DnFields # {} => DnDecodable
           /\ component = "virgin" =>
                /\ DOMAIN data \subseteq VirginSensorKeys
                /\ data # EmptyRec => VirginSources > 0

C6_Witness ==
    /\ component = "arris"
    /\ outcome = "returned"
    /\ field_lost
    /\ ~Answered(resp.ct)
    /\ DnDecodable
    /\ DOMAIN data = DnFields

TimestampKey == "last_update"

\* C7: every record returned by a cycle holds the timestamp field.
C7_TimestampAlwaysPresent == Returned => TimestampKey \in DOMAIN data

\* total is present iff both counts are, and then is their sum
TotalOf(total, a, b) ==
    /\ total \in DOMAIN data <=> (a \in DOMAIN data /\ b \in DOMAIN data)
    /\ total \in DOMAIN data =>
          /\ data[a].t = "int" /\ data[b].t = "int"
          /\ data[total] = IntV(data[a].n + data[b].n)

\* C8: in every returned record each total is present iff both its counts
\* are present, and then equals their sum.
C8_TotalsIffBothCounts ==
    Returned
        => /\ TotalOf("total_downstream_channels", "docsis_3_0_downstream",
                      "docsis_3_1_downstream")
           /\ TotalOf("total_upstream_channels", "docsis_3_0_upstream",
                      "docsis_3_1_upstream")

\* C9: no key of a returned record holds None.
C9_NoNullValues == Returned => \A k \in DOMAIN data : data[k] # None

\* C10: only the coded-status endpoint answers, with {"js_cm_oper_value": "5"}:
\* the record is exactly cable_modem_status = "Online" plus the timestamp.
C10_OnlyCodedStatus ==
    (component = "arris" /\ outcome # "none"
       /\ ~Answered(resp.root) /\ ~Answered(resp.dn)
       /\ resp.ct = Http(200, JsonDict([k \in {"js_cm_oper_value"} |-> StrV("5")])))
        => /\ outcome = "returned"
           /\ DOMAIN data = {"cable_modem_status", TimestampKey}
           /\ data["cable_modem_status"] = StrV("Online")


\* the positional array of the most recent Arris cycle was fetched and is a list
DnListFetched ==
    /\ component = "arris" /\ outcome = "returned"
    /\ Answered(resp.dn) /\ resp.dn.body.kind = "list"

\* C11: an array of fewer than 29 elements gives no field; one of exactly 29
\* gives the four channel counts and the totals but none of the fields that
\* need 30 elements; one of 30 or more gives both groups.
C11_ArrayLengthBoundary ==
    DnListFetched
        => LET n == Len(resp.dn.body.j)
           IN /\ n < 29 => DOMAIN data \cap DnFields = {}
              /\ n = 29 => /\ CountFields \subseteq DOMAIN data
                           /\ DOMAIN data \cap (DnFields \ CountFields) = {}
              /\ n >= 30 => DnFields \subseteq DOMAIN data


MappedIds == {6, 8, 20, 41, 44, 50, 51}

\* the integer customer id at index 4 of a decoded positional array (-1 if none)
ArrayCustomerId ==
    IF component = "arris" /\ outcome = "returned" /\ DnDecodable
       /\ resp.dn.body.j[5].t = "int"
    THEN resp.dn.body.j[5].n
    ELSE -1

\* the customer id _parse_isp_provider found in the page it was given (-1 if none)
ScriptCustomerId ==
    IF component = "parse" /\ outcome = "returned"
    THEN (IF ~ page_args.main_html.blank THEN page_args.main_html
          ELSE page_args.html).script.customer_id
    ELSE -1

LibertyGlobal(c) == "Liberty Global International (ID: " \o ToString(c) \o ")"

\* what each path must write for customer id c, given the unmapped rendering
IspPinned(c, unmapped) ==
    /\ c = 8 => data["isp_provider"] = StrV("Virgin Media")
    /\ (c >= 0 /\ c \notin MappedIds) => data["isp_provider"] = StrV(unmapped)

StatusRowValue(page) ==
    LET hits == {i \in 1..Len(page.rows) :
                    /\ Len(page.rows[i]) >= 2
                    /\ HasPhrase(page.rows[i][1], <<"Cable", "Modem", "Status">>)}
    IN IF hits = {} THEN <<>>
       ELSE <<Join(page.rows[CHOOSE i \in hits : \A h \in hits : h >= i][2])>>

\* C13: both JSON endpoints fail and GET / answers 200 with a "Cable Modem
\* Status" row of value V: the record holds cable_modem_status = V and the
\* isp_provider of the page's customerId.
C13_RootPageFallback ==
    (component = "arris" /\ outcome # "none"
       /\ ~Answered(resp.ct) /\ ~Answered(resp.dn) /\ Answered(resp.root)
       /\ StatusRowValue(resp.root.body.page) # <<>>)
        => /\ outcome = "returned"
           /\ "cable_modem_status" \in DOMAIN data
           /\ data["cable_modem_status"] = StrV(StatusRowValue(resp.root.body.page)[1])
           /\ "isp_provider" \in DOMAIN data
           /\ data["isp_provider"] = StrV(ParseIspProvider(resp.root.body.page))


\* the config flow has probed the router and answered the operator
Probed == component = "config_flow" /\ flow.host # NoInput

\* C14: every transport-level failure of the probe's GET, a timeout included,
\* is shown as cannot_connect; invalid_host is shown only for other
\* exceptions; no other error is shown.
C14_ProbeErrorCategories ==
    (Probed /\ flow.step = "form")
        => /\ flow.probe.err \in {TimeoutError, ClientError}
                => flow.errors = [k \in {"base"} |-> "cannot_connect"]
           /\ flow.errors = [k \in {"host"} |-> "invalid_host"]
                => flow.probe.err \notin {TimeoutError, ClientError}
           /\ flow.errors \in {[k \in {"base"} |-> "cannot_connect"],
                               [k \in {"host"} |-> "invalid_host"]}

\* C15: a probe answered with a status other than 200 shows the form again
\* with cannot_connect and creates no entry; an entry is created only for a
\* probe answered with 200.
C15_Non200IsCannotConnect ==
    Probed
        => /\ (flow.probe.err = NoExc /\ flow.probe.status # 200)
                => /\ flow.step = "form"
                   /\ flow.errors = [k \in {"base"} |-> "cannot_connect"]
           /\ flow.step = "create_entry"
                => (flow.probe.err = NoExc /\ flow.probe.status = 200)


====
